---- MODULE Spec2Model ----
(***************************************************************************)
(* Model of app_streamlit.py: the output-path resolver _resolver_caminho,  *)
(* its two callers download_single and download_playlist, and the          *)
(* "Iniciar download" handler that keeps st.session_state.                 *)
(*                                                                         *)
(* A path is a record [dir, pre, id, ext] standing for the string          *)
(*   <dir>/<pre><id>.<ext>     (pre = "" : the bare name <id>.<ext>)       *)
(*   <dir>/T [<id>].<ext>      (pre = "T": the outtmpl name, title T)      *)
(* Two paths are the same string exactly when the records are equal.       *)
(***************************************************************************)
EXTENDS Naturals, Sequences, FiniteSets

VARIABLES
    HAS_FFMPEG,         \* module constant computed at import (line 15)
    files,              \* the paths that exist on disk
    scan,               \* the order in which output_dir lists its files
    info,               \* the metadata handed to _resolver_caminho
    download_type,      \* "video" | "audio"
    rpc,                \* resolver call: "call" | "returned"
    ret,                \* what the resolver call produced
    pc,                 \* the handler's position: "idle" | "loop"
    downloads_prontos,  \* st.session_state["downloads_prontos"]
    entries,            \* download_playlist: the playlist's entries
    idx,                \* download_playlist: the entries visited so far
    resultados,         \* download_playlist's result list
    last                \* how the latest attempt ended, and its items

vars == <<HAS_FFMPEG, files, scan, info, download_type, rpc, ret,
          pc, downloads_prontos, entries, idx, resultados, last>>

-----------------------------------------------------------------------------
(* Bounds *)

\* the longest requested_downloads list drawn
MaxRD == 2
\* the longest playlist drawn
MaxEntries == 3

-----------------------------------------------------------------------------
(* Paths and the filesystem *)

Path(d, p, i, e) == [dir |-> d, pre |-> p, id |-> i, ext |-> e]

\* a missing or empty path value (None or ""): falsy in `if fp`
NoPath == Path("", "", "", "")
\* a missing identifier
NoId == ""

\* output_dir = BASE_DOWNLOAD_DIR / output_subdir
OutputDir == "downloads/default"

BareMp3  == Path(OutputDir, "", "a", "mp3")
BareWebm == Path(OutputDir, "", "a", "webm")
TmplMp3  == Path(OutputDir, "T", "a", "mp3")
TmplWebm == Path(OutputDir, "T", "a", "webm")
TmplNA   == Path(OutputDir, "T", "NA", "webm")

\* the files that may exist
FilePaths == {BareMp3, BareWebm, TmplMp3, TmplWebm, TmplNA}

InDir(fs, d) == {p \in fs : p.dir = d}

\* the orders in which a directory scan may list the set S
Orders(S) ==
    {s \in [1..Cardinality(S) -> S] : \A i, j \in 1..Cardinality(S) : s[i] = s[j] => i = j}

\* os.path.exists(fp)
OsPathExistsAlways(fp, fs) == TRUE
OsPathExists(fp, fs) == fp \in fs

\* os.path.basename(fp)
Basename(fp) == [fp EXCEPT !.dir = ""]

\* os.path.splitext(fp)[0] + ".mp3"
WithMp3(fp) == [fp EXCEPT !.ext = "mp3"]

\* output_dir.glob(f"*{video_id}*"): the files of output_dir whose name
\* contains video_id, in directory order
GlobOtherDir(order, dir, video_id) ==
    SelectSeq(order, LAMBDA p : p.dir # dir /\ p.id = video_id)
Glob(order, dir, video_id) ==
    SelectSeq(order, LAMBDA p : p.dir = dir /\ p.id = video_id)

-----------------------------------------------------------------------------
(* Metadata *)

\* info is None (extract_info with ignoreerrors returns None on failure)
NoneInfo ==
    [dict |-> FALSE, hasRD |-> FALSE, requested_downloads |-> <<>>,
     filename |-> NoPath, id |-> NoId, ext |-> "webm", prepFails |-> TRUE]

\* the "filepath" values of requested_downloads records
RDPaths == {NoPath, TmplNA, TmplWebm}
\* the "_filename" values
FilenamePaths == {NoPath, TmplNA, TmplWebm}
Ids == {"a"}

RDLists == UNION {[1..n -> RDPaths] : n \in 0..MaxRD}

DictInfos ==
    {i \in [dict : {TRUE}, hasRD : BOOLEAN, requested_downloads : RDLists,
            filename : FilenamePaths, id : Ids \cup {NoId}, ext : {"webm"},
            prepFails : BOOLEAN] :
        ~i.hasRD => i.requested_downloads = <<>>}

Infos == DictInfos \cup {NoneInfo}

-----------------------------------------------------------------------------
(* _resolver_caminho *)

\* ydl.prepare_filename(info) under outtmpl "<output_dir>/%(title)s [%(id)s].%(ext)s"
PrepareFilenameRaises(i, dir) == [ok |-> FALSE, fp |-> NoPath]
PrepareFilename(i, dir) ==
    IF ~i.dict \/ i.prepFails
    THEN [ok |-> FALSE, fp |-> NoPath]
    ELSE [ok |-> TRUE,
          fp |-> Path(dir, "T", IF i.id = NoId THEN "NA" ELSE i.id, i.ext)]

\* step 1: requested_downloads
Step1Skip(i) == <<>>
Step1(i) ==
    IF i.dict /\ i.hasRD
    THEN SelectSeq(i.requested_downloads, LAMBDA fp : fp # NoPath)
    ELSE <<>>

\* step 2: _filename
Step2(i) ==
    IF i.dict /\ i.filename # NoPath THEN <<i.filename>> ELSE <<>>

\* step 3: prepare_filename, with .mp3 when the audio is transcoded
Step3KeepExt(i, dtype, ffmpeg, dir) ==
    LET r == PrepareFilename(i, dir) IN IF r.ok THEN <<r.fp>> ELSE <<>>
Step3(i, dtype, ffmpeg, dir) ==
    LET r == PrepareFilename(i, dir) IN
    IF ~r.ok THEN <<>>
    ELSE IF dtype = "audio" /\ ffmpeg THEN <<WithMp3(r.fp)>>
    ELSE <<r.fp>>

\* step 4: glob by id (reached only when info.get does not raise)
Step4(i, order, dir) ==
    IF i.id # NoId THEN Glob(order, dir, i.id) ELSE <<>>

\* lines 111-119: the first candidate, unseen so far, that exists
RECURSIVE FirstExisting(_, _, _, _, _)
FirstExisting(cands, k, vistos, checked, fs) ==
    IF k > Len(cands)
    THEN [kind |-> "None", path |-> NoPath, checked |-> checked]
    ELSE LET fp == cands[k] IN
         IF fp = NoPath \/ fp \in vistos
         THEN FirstExisting(cands, k + 1, vistos, checked, fs)
         ELSE IF OsPathExists(fp, fs)
         THEN [kind |-> "path", path |-> fp, checked |-> Append(checked, fp)]
         ELSE FirstExisting(cands, k + 1, vistos \cup {fp}, Append(checked, fp), fs)

\* the candidate list in the order the steps append
CandidatosFilenameFirst(i, dtype, ffmpeg, order, dir) ==
    Step2(i) \o Step1(i) \o Step3(i, dtype, ffmpeg, dir) \o Step4(i, order, dir)
Candidatos(i, dtype, ffmpeg, order, dir) ==
    Step1(i) \o Step2(i) \o Step3(i, dtype, ffmpeg, dir) \o Step4(i, order, dir)

\* _resolver_caminho(info, ydl, download_type, output_dir):
\* kind "path" (the return value), "None", or "raise" (info.get on None)
ResolverCaminho(i, dtype, ffmpeg, fs, order, dir) ==
    IF ~i.dict
    THEN [kind |-> "raise", path |-> NoPath,
          candidatos |-> Step1(i) \o Step2(i) \o Step3(i, dtype, ffmpeg, dir),
          checked |-> <<>>]
    ELSE LET c == Candidatos(i, dtype, ffmpeg, order, dir)
             r == FirstExisting(c, 1, {}, <<>>, fs)
         IN  [kind |-> r.kind, path |-> r.path, candidatos |-> c,
              checked |-> r.checked]

NoRet == [kind |-> "None", path |-> NoPath, candidatos |-> <<>>, checked |-> <<>>]

-----------------------------------------------------------------------------
(* download_single and the items it returns *)

\* {"title", "filename", "bytes"}: the bytes of a file are named by its path
\* (the title plays no part in any decision and is left out)
Item(fp) == [filename |-> Basename(fp), bytes |-> fp]
NoItem == Item(NoPath)

\* download_single after extract_info returned i: the item, or the exception
\* that leaves the function (AttributeError out of the resolver for i = None,
\* FileNotFoundError of lines 133-138)
DownloadSingle(i, dtype, ffmpeg, fs, order, dir) ==
    LET r == ResolverCaminho(i, dtype, ffmpeg, fs, order, dir) IN
    IF r.kind = "raise"
    THEN [ok |-> FALSE, exc |-> "AttributeError", item |-> NoItem]
    ELSE IF r.kind = "None" \/ ~OsPathExists(r.path, fs)
    THEN [ok |-> FALSE, exc |-> "FileNotFoundError", item |-> NoItem]
    ELSE [ok |-> TRUE, exc |-> "", item |-> Item(r.path)]

-----------------------------------------------------------------------------
(* The resolver on its own: every input drawn, one call *)

\* st.session_state["downloads_prontos"] = None
NoDownloads == [tipo |-> "None", itens |-> <<>>]
NoLast == [outcome |-> "none", itens |-> <<>>, had |-> FALSE]

SessionIdle ==
    /\ pc = "idle"
    /\ downloads_prontos = NoDownloads
    /\ entries = <<>>
    /\ idx = 0
    /\ resultados = <<>>
    /\ last = NoLast

InitResolver ==
    /\ HAS_FFMPEG \in BOOLEAN
    /\ files \in SUBSET FilePaths
    /\ scan \in Orders(InDir(files, OutputDir))
    /\ info \in Infos
    /\ download_type \in {"video", "audio"}
    /\ rpc = "call"
    /\ ret = NoRet
    /\ SessionIdle

CallResolver ==
    /\ rpc = "call"
    /\ ret' = ResolverCaminho(info, download_type, HAS_FFMPEG, files, scan, OutputDir)
    /\ rpc' = "returned"
    /\ UNCHANGED <<HAS_FFMPEG, files, scan, info, download_type,
                   pc, downloads_prontos, entries, idx, resultados, last>>

NextResolver == CallResolver

SpecResolver == InitResolver /\ [][NextResolver]_vars

-----------------------------------------------------------------------------
(* Properties of the resolver, checked under SpecResolver *)

Returned == rpc = "returned"
Transcoded == download_type = "audio" /\ HAS_FFMPEG

\* the files of output_dir whose name contains the identifier x
Matching(x) == {p \in files : p.dir = OutputDir /\ p.id = x}

\* the path the naming template gives for the metadata of this call
TemplatePath ==
    Path(OutputDir, "T", IF info.id = NoId THEN "NA" ELSE info.id,
         IF Transcoded THEN "mp3" ELSE info.ext)

\* the requested_downloads records whose declared path exists
ExistingRD ==
    {k \in DOMAIN info.requested_downloads :
        /\ info.requested_downloads[k] # NoPath
        /\ info.requested_downloads[k] \in files}

Least(S) == CHOOSE k \in S : \A j \in S : k <= j

\* C1: a returned path passed the existence check of the same call: it is the
\* last path the call checked, and it is one of the files that exist.
C1_ReturnedPathWasChecked ==
    (Returned /\ ret.kind = "path") =>
        /\ ret.path \in files
        /\ Len(ret.checked) > 0
        /\ ret.checked[Len(ret.checked)] = ret.path
        /\ \A k \in 1..(Len(ret.checked) - 1) : ret.checked[k] \notin files

C1_Witness ==
    Returned /\ ret.kind = "path" /\ Len(ret.checked) >= 3

\* C2 as stated: every requested-output record whose declared path exists is
\* the path returned.
C2_AnyExistingRecordReturned ==
    (Returned /\ info.dict /\ info.hasRD) =>
        \A k \in ExistingRD :
            ret.kind = "path" /\ ret.path = info.requested_downloads[k]

\* C2 amended: when some requested-output record's declared path exists, the
\* path returned is that of the earliest such record, whatever other
\* candidates exist.
C2_EarliestExistingRecordReturned ==
    (Returned /\ info.dict /\ info.hasRD /\ ExistingRD # {}) =>
        ret.kind = "path" /\ ret.path = info.requested_downloads[Least(ExistingRD)]

C2_Witness ==
    /\ Returned /\ info.dict /\ info.hasRD
    /\ ExistingRD = {2}
    /\ info.filename \in files
    /\ info.filename # info.requested_downloads[2]
    /\ Matching(info.id) # {}
    /\ ret.path = info.requested_downloads[2]

\* C3: the call completes with a return value, never an exception.
C3_NeverRaises ==
    Returned => ret.kind # "raise"

\* C4: transcoded audio with both <id>.mp3 and <id>.webm in the directory and
\* nothing but the identifier to go by resolves to the .mp3.
C4_Mp3Preferred ==
    (/\ Returned /\ Transcoded
     /\ info.dict /\ ~info.hasRD /\ info.filename = NoPath /\ info.id = "a"
     /\ files = {BareMp3, BareWebm})
        => (ret.kind = "path" /\ ret.path = BareMp3)

\* C6 as stated: metadata carrying only an identifier, with <dir>/<id>.<ext>
\* on disk, resolves to a path of that form, whatever else is in the directory.
OnlyId == info.dict /\ ~info.hasRD /\ info.filename = NoPath /\ info.id # NoId
BareMatches == {p \in Matching(info.id) : p.pre = ""}

MissingAll == ~info.hasRD /\ info.filename = NoPath /\ info.id = NoId

C7_MalformedRaises ==
    (Returned /\ MissingAll) => ret.kind = "raise"

\* C7 amended: a metadata mapping missing all three is no failure: the call
\* returns the template-reconstructed path when that exists and NotFound
\* otherwise; only an absent (None) metadata makes the call raise.
C7_MalformedReturnsNormally ==
    (Returned /\ MissingAll) =>
        /\ info.dict =>
              IF ~info.prepFails /\ TemplatePath \in files
              THEN ret.kind = "path" /\ ret.path = TemplatePath
              ELSE ret.kind = "None"
        /\ ~info.dict => ret.kind = "raise"

C7_Witness ==
    /\ Returned /\ MissingAll /\ info.dict
    /\ files # {}
    /\ ret.kind = "None"

C7_WitnessPath ==
    Returned /\ MissingAll /\ info.dict /\ ret.kind = "path"

\* C8: the path returned is the earliest existing one in the order requested
\* outputs (record order), legacy filename, template path, identifier matches
\* (scan order); NotFound only when none exists; no path is checked twice.
C8_PriorityOrder ==
    (Returned /\ info.dict) =>
        /\ \A j, k \in DOMAIN ret.checked : ret.checked[j] = ret.checked[k] => j = k
        /\ IF info.hasRD /\ ExistingRD # {}
           THEN ret.kind = "path" /\ ret.path = info.requested_downloads[Least(ExistingRD)]
           ELSE IF info.filename # NoPath /\ info.filename \in files
           THEN ret.kind = "path" /\ ret.path = info.filename
           ELSE IF ~info.prepFails /\ TemplatePath \in files
           THEN ret.kind = "path" /\ ret.path = TemplatePath
           ELSE IF info.id # NoId /\ Matching(info.id) # {}
           THEN /\ ret.kind = "path"
                /\ ret.path = scan[Least({k \in DOMAIN scan : scan[k] \in Matching(info.id)})]
           ELSE ret.kind = "None"

\* a requested output that does not exist, a legacy filename that repeats it,
\* and the identifier match deciding
C8_Witness ==
    /\ Returned /\ info.dict /\ info.hasRD
    /\ Len(info.requested_downloads) = 2
    /\ info.requested_downloads[1] # NoPath
    /\ info.requested_downloads[1] = info.requested_downloads[2]
    /\ info.filename = info.requested_downloads[1]
    /\ info.filename \notin files
    /\ ~info.prepFails /\ TemplatePath \notin files
    /\ ret.kind = "path" /\ ret.path \in Matching(info.id)
    /\ Len(ret.candidatos) >= 5

\* C9: the template step adds exactly one candidate, the reconstructed path
\* with .mp3 when the audio is transcoded and unchanged otherwise; when the
\* reconstruction fails it adds none and the identifier step still adds its
\* matches.
NumBefore3 ==
    (IF info.hasRD
     THEN Cardinality({k \in DOMAIN info.requested_downloads :
                          info.requested_downloads[k] # NoPath})
     ELSE 0)
    + (IF info.filename # NoPath THEN 1 ELSE 0)
NumStep4 == IF info.id = NoId THEN 0 ELSE Cardinality(Matching(info.id))

C9_TemplateStep ==
    Returned =>
        IF ~info.dict THEN ret.candidatos = <<>>
        ELSE IF info.prepFails
        THEN /\ Len(ret.candidatos) = NumBefore3 + NumStep4
             /\ \A k \in 1..NumStep4 :
                    ret.candidatos[NumBefore3 + k] \in Matching(info.id)
        ELSE /\ Len(ret.candidatos) = NumBefore3 + 1 + NumStep4
             /\ ret.candidatos[NumBefore3 + 1] =
                    Path(OutputDir, "T", IF info.id = NoId THEN "NA" ELSE info.id,
                         IF download_type = "audio" /\ HAS_FFMPEG
                         THEN "mp3" ELSE info.ext)
             /\ \A k \in 1..NumStep4 :
                    ret.candidatos[NumBefore3 + 1 + k] \in Matching(info.id)

\* transcoded audio: the .webm the template names exists, and the .mp3 beside
\* it is what the template step offers and the call returns
C9_Witness ==
    /\ Returned /\ info.dict /\ ~info.prepFails /\ Transcoded
    /\ ~info.hasRD /\ info.filename = NoPath
    /\ TmplWebm \in files /\ TmplMp3 \in files
    /\ scan[1] = TmplWebm
    /\ ret.kind = "path" /\ ret.path = TmplMp3

-----------------------------------------------------------------------------
(* The session: the "Iniciar download" handler, download_playlist *)

\* line 267: the prepared downloads are dropped before the attempt runs
AttemptStartKeep(prontos) == prontos
AttemptStart(prontos) == NoDownloads

\* the metadata drawn in a session: None (the extraction failed), an item
\* known by its identifier only, one with a legacy filename only, one with a
\* requested output and an identifier
IdOnlyEntry ==
    [dict |-> TRUE, hasRD |-> FALSE, requested_downloads |-> <<>>,
     filename |-> NoPath, id |-> "a", ext |-> "webm", prepFails |-> TRUE]
FilenameEntry == [IdOnlyEntry EXCEPT !.filename = TmplNA, !.id = NoId]
RequestedEntry ==
    [IdOnlyEntry EXCEPT !.hasRD = TRUE, !.requested_downloads = <<TmplNA>>]
SessionInfos == {NoneInfo, IdOnlyEntry, FilenameEntry, RequestedEntry}

EntryLists == UNION {[1..n -> SessionInfos] : n \in 0..MaxEntries}

\* the files an extraction of a session may leave in output_dir
SessionFiles == {BareWebm, TmplNA}

Init ==
    /\ HAS_FFMPEG \in BOOLEAN
    /\ files = {}
    /\ scan = <<>>
    /\ info = NoneInfo
    /\ download_type = "video"
    /\ rpc = "idle"
    /\ ret = NoRet
    /\ SessionIdle

\* the outcome of an attempt that ran download_single on metadata i
SingleOutcome(i, dtype, fs, order, tipo) ==
    LET r == DownloadSingle(i, dtype, HAS_FFMPEG, fs, order, OutputDir)
        start == AttemptStart(downloads_prontos) IN
    /\ downloads_prontos' =
           IF r.ok THEN [tipo |-> tipo, itens |-> <<r.item>>] ELSE start
    /\ last' = [outcome |-> IF r.ok THEN "ok" ELSE r.exc,
                itens |-> IF r.ok THEN <<r.item>> ELSE <<>>,
                had |-> downloads_prontos # NoDownloads]
    /\ files' = fs
    /\ scan' = order
    /\ download_type' = dtype
    /\ UNCHANGED <<HAS_FFMPEG, info, rpc, ret, pc, entries, idx, resultados>>

\* "Video (MP4)" or "Audio": lines 271-289
ClickSingle ==
    /\ pc = "idle"
    /\ \E dtype \in {"video", "audio"}, i \in SessionInfos, fs \in SUBSET SessionFiles :
       \E order \in Orders(InDir(fs, OutputDir)) :
           SingleOutcome(i, dtype, fs, order, "single")

\* "Playlist", extract_info returned None: info.get at line 165 raises
ClickPlaylistNoInfo ==
    /\ pc = "idle"
    /\ \E dtype \in {"video", "audio"}, fs \in SUBSET SessionFiles :
       \E order \in Orders(InDir(fs, OutputDir)) :
           /\ downloads_prontos' = AttemptStart(downloads_prontos)
           /\ last' = [outcome |-> "AttributeError", itens |-> <<>>,
                       had |-> downloads_prontos # NoDownloads]
           /\ files' = fs
           /\ scan' = order
           /\ download_type' = dtype
           /\ UNCHANGED <<HAS_FFMPEG, info, rpc, ret, pc, entries, idx, resultados>>

\* "Playlist", the URL is no playlist: lines 165-167 hand over to
\* download_single, which extracts again
ClickPlaylistNotPlaylist ==
    /\ pc = "idle"
    /\ \E dtype \in {"video", "audio"}, i \in SessionInfos, fs \in SUBSET SessionFiles :
       \E order \in Orders(InDir(fs, OutputDir)) :
           SingleOutcome(i, dtype, fs, order, "playlist")

\* "Playlist", a playlist: the loop of lines 169-190 starts
ClickPlaylistStart ==
    /\ pc = "idle"
    /\ \E dtype \in {"video", "audio"}, es \in EntryLists, fs \in SUBSET SessionFiles :
       \E order \in Orders(InDir(fs, OutputDir)) :
           /\ downloads_prontos' = AttemptStart(downloads_prontos)
           /\ last' = [outcome |-> "running", itens |-> <<>>,
                       had |-> downloads_prontos # NoDownloads]
           /\ files' = fs
           /\ scan' = order
           /\ download_type' = dtype
           /\ entries' = es
           /\ idx' = 0
           /\ resultados' = <<>>
           /\ pc' = "loop"
           /\ UNCHANGED <<HAS_FFMPEG, info, rpc, ret>>

\* one pass of the loop body, lines 170-190
PlaylistEntryHalt ==
    /\ pc = "loop"
    /\ idx < Len(entries)
    /\ LET entry == entries[idx + 1]
           r == ResolverCaminho(entry, download_type, HAS_FFMPEG, files, scan, OutputDir)
           found == entry.dict /\ r.kind = "path" /\ OsPathExists(r.path, files) IN
       /\ idx' = IF found THEN idx + 1 ELSE Len(entries)
       /\ resultados' = IF found THEN Append(resultados, Item(r.path)) ELSE resultados
    /\ UNCHANGED <<HAS_FFMPEG, files, scan, info, download_type, rpc, ret,
                   pc, downloads_prontos, entries, last>>
PlaylistEntry ==
    /\ pc = "loop"
    /\ idx < Len(entries)
    /\ LET entry == entries[idx + 1] IN
       /\ idx' = idx + 1
       /\ IF ~entry.dict
          THEN resultados' = resultados
          ELSE LET r == ResolverCaminho(entry, download_type, HAS_FFMPEG,
                                        files, scan, OutputDir) IN
               IF r.kind # "path" \/ ~OsPathExists(r.path, files)
               THEN resultados' = resultados
               ELSE resultados' = Append(resultados, Item(r.path))
    /\ UNCHANGED <<HAS_FFMPEG, files, scan, info, download_type, rpc, ret,
                   pc, downloads_prontos, entries, last>>

\* the loop is over: download_playlist returns its list and its locals are
\* gone; lines 304-316 store the list unless it is empty
PlaylistReturn ==
    /\ pc = "loop"
    /\ idx = Len(entries)
    /\ downloads_prontos' =
           IF resultados = <<>> THEN downloads_prontos
           ELSE [tipo |-> "playlist", itens |-> resultados]
    /\ last' = [last EXCEPT !.outcome = IF resultados = <<>> THEN "empty" ELSE "ok",
                            !.itens = resultados]
    /\ pc' = "idle"
    /\ entries' = <<>>
    /\ idx' = 0
    /\ resultados' = <<>>
    /\ UNCHANGED <<HAS_FFMPEG, files, scan, info, download_type, rpc, ret>>

Next ==
    \/ ClickSingle
    \/ ClickPlaylistNoInfo
    \/ ClickPlaylistNotPlaylist
    \/ ClickPlaylistStart
    \/ PlaylistEntry
    \/ PlaylistReturn

Spec == Init /\ [][Next]_vars

-----------------------------------------------------------------------------
(* Properties of the session, checked under Spec *)

\* the resolver finds an existing path for playlist entry e
Found(e) ==
    /\ e.dict
    /\ LET r == ResolverCaminho(e, download_type, HAS_FFMPEG, files, scan, OutputDir)
       IN  r.kind = "path" /\ r.path \in files

\* the items of the entries of es the resolver finds a path for, in order
ItemsOf(es) ==
    LET sel == SelectSeq(es, Found) IN
    [k \in 1..Len(sel) |->
        Item(ResolverCaminho(sel[k], download_type, HAS_FFMPEG, files, scan,
                             OutputDir).path)]

\* C5: download_playlist returns only after visiting every entry, and the
\* list it returns holds, in entry order, exactly the entries the resolver
\* found an existing path for; entries that are None or NotFound are skipped.
C5_NotFoundDoesNotHalt ==
    [][(pc = "loop" /\ pc' = "idle") =>
          /\ idx = Len(entries)
          /\ resultados = ItemsOf(entries)
          /\ last'.itens = ItemsOf(entries)]_vars

\* three entries, the first absent, the second NotFound, the third resolved
C5_Witness ==
    /\ pc = "loop"
    /\ Len(entries) = 3 /\ idx = 3
    /\ ~entries[1].dict
    /\ entries[2].dict /\ ~Found(entries[2])
    /\ Found(entries[3])
    /\ Len(resultados) = 1

\* C10: downloads_prontos is None while an attempt runs and after an attempt
\* that failed; otherwise it holds the non-empty item list of the latest
\* attempt.
C10_PreparedDownloadsFresh ==
    /\ downloads_prontos # NoDownloads =>
          /\ pc = "idle"
          /\ Len(downloads_prontos.itens) > 0
          /\ last.outcome = "ok"
          /\ downloads_prontos.itens = last.itens
    /\ pc = "loop" => downloads_prontos = NoDownloads
    /\ (pc = "idle" /\ last.outcome \notin {"ok", "none"}) =>
          downloads_prontos = NoDownloads

\* an attempt that failed with results of an earlier attempt on offer
C10_Witness ==
    /\ pc = "idle"
    /\ last.had
    /\ last.outcome \in {"FileNotFoundError", "AttributeError", "empty"}
    /\ downloads_prontos = NoDownloads

====
